---- MODULE Spec2Model ----
(***************************************************************************)
(* The LLM invocation layer of the job-application agent:                  *)
(*   - LoggerChatModel.__call__ of src/libs/llm_manager.py ("llm_manager") *)
(*   - LoggerChatModel.__call__ of                                         *)
(*     src/libs/resume_and_cover_builder/utils.py ("resume_builder")       *)
(* with the normalizers (parse_llmresult) and call loggers (log_request)   *)
(* they call.  One step of the model is one iteration of the retry loop,   *)
(* handler included.  Spec is the invokers and LiveSpec the invokers whose *)
(* loop steps are not postponed for ever; NormalizerSpec applies           *)
(* parse_llmresult to one raw reply, LoggerSpec is a sequence of           *)
(* log_request calls, AdapterSpec builds an AIAdapter and asks it for      *)
(* models, ThreadsSpec runs two threads in __call__ of one resume_builder  *)
(* instance, and ApiSpec is call_ollama_api of src/libs/api_handler.py,    *)
(* all over the same variables.                                            *)
(***************************************************************************)
EXTENDS Integers, Sequences, FiniteSets, TLC

VARIABLES
    invoker,                \* which LoggerChatModel class the instance is
    pc,                     \* "idle" | "attempting" | "done" | "failed"
    messages,               \* the argument of __call__
    attempt,                \* iterations of the for loop completed (the index range() hands out next)
    retry_delay,            \* local retry_delay
    auth_error_encountered, \* local auth_error_encountered (resume_builder)
    fallback_llm,           \* self.fallback_llm (resume_builder)
    is_using_fallback,      \* self.is_using_fallback (resume_builder)
    reply,                  \* local reply of the iteration that returned (dead in every other)
    ret,                    \* the value returned to the caller
    raised,                 \* the exception that left __call__
    log,                    \* the lines of open_ai_calls.json
    calls,                  \* backend calls (self.llm.invoke, self.fallback_llm) in this invocation
    last_called,            \* the backend the latest call went to
    primary_outcomes,       \* kinds of outcome the primary calls had in this invocation
    fallback_outcomes,      \* kinds of outcome the fallback calls had in this invocation
    backoffs,               \* iterations of this invocation that ended in time.sleep(retry_delay)
    last_sleep,             \* seconds the latest iteration slept (0: it did not sleep)
    invocations,            \* calls of __call__ on the instance so far
    sent,                   \* the prompt the backend called last was given
    adapter,                \* the AIAdapter: its arguments, self.model, the models built
    callee,                 \* of each thread: the backend object its call in progress went to
    current_time            \* of each thread: the clock as its log_request read it

vars == <<invoker, pc, messages, attempt, retry_delay, auth_error_encountered,
          fallback_llm, is_using_fallback, reply, ret, raised, log,
          calls, last_called, primary_outcomes, fallback_outcomes,
          backoffs, last_sleep, invocations, sent, adapter, callee, current_time>>

(***************************************************************************)
(* Bounds of the model.                                                    *)
(***************************************************************************)
MaxInvocations == 2
MaxLogCalls == 3
MaxModelsBuilt == 2
MaxApiCalls == 3
MaxLiveInvocations == 1

(***************************************************************************)
(* Program constants.                                                      *)
(***************************************************************************)
DEFAULT_RETRY_DELAY == 30
MAX_RETRIES == 15
max_retries == 15
initial_retry_delay == 10
default_wait_time == 30
prompt_price_per_token == 15
completion_price_per_token == 60

(***************************************************************************)
(* Python values.  None is "None" where a string is expected and NoneDict  *)
(* where a dict is expected; a dict is a function from its keys, and        *)
(* WrongType(t) is a value that is no dict (a string, a number, a list),   *)
(* truthy or falsy as t says.                                              *)
(***************************************************************************)
None == "None"

\* no backend call is in progress
NoCallee == "none"

\* log_request has not read the clock
NoTime == 0

NoneDict == [py_none |-> TRUE]
EmptyDict == [k \in {} |-> 0]
WrongType(truthy) == [py_wrong_type |-> truthy]

\* d has the method get
IsDict(d) == "py_none" \notin DOMAIN d /\ "py_wrong_type" \notin DOMAIN d

\* a lookup that never finds the key
Get_default(d, k, default) == default

\* d.get(k, default)
Get(d, k, default) == IF k \in DOMAIN d THEN d[k] ELSE default

\* bool(d)
Truthy(d) == d # NoneDict /\ d # EmptyDict /\ d # WrongType(FALSE)

RECURSIVE Pow2(_)
Pow2(n) == IF n = 0 THEN 1 ELSE 2 * Pow2(n - 1)

(***************************************************************************)
(* Exceptions.  A message is the sequence of its words.                    *)
(***************************************************************************)
Exc(class, status, message) ==
    [class |-> class, status |-> status, message |-> message]

\* the status of an HTTPError built without a response: err.response is None
NoResponse == 0

HTTPStatusError(status) == Exc("HTTPStatusError", status, <<"HTTP", "error">>)
RateLimitError(message) == Exc("RateLimitError", 429, message)
ValueError(message) == Exc("ValueError", 0, message)
OtherError(message) == Exc("Exception", 0, message)

BackendErrors ==
    { HTTPStatusError(401), HTTPStatusError(429), HTTPStatusError(500),
      HTTPStatusError(NoResponse),
      RateLimitError(<<"Rate", "limit", "reached">>),
      RateLimitError(<<"Please", "Retry", "After", "20", "seconds">>),
      ValueError(<<"Invalid", "API", "key">>),
      ValueError(<<"Authentication", "failed">>),
      ValueError(<<"invalid", "api", "key">>),
      ValueError(<<"bad", "value">>),
      OtherError(<<"Connection", "reset">>) }

Lower(w) ==
    CASE w = "Retry" -> "retry"
      [] w = "After" -> "after"
      [] w = "Authentication" -> "authentication"
      [] w = "API" -> "api"
      [] w = "Invalid" -> "invalid"
      [] w = "Please" -> "please"
      [] w = "Rate" -> "rate"
      [] w = "Connection" -> "connection"
      [] w = "HTTP" -> "http"
      [] OTHER -> w

LowerAll(message) == [i \in 1..Len(message) |-> Lower(message[i])]

\* phrase in message
Contains(message, phrase) ==
    \E i \in 1..(Len(message) - Len(phrase) + 1) :
        SubSeq(message, i, i + Len(phrase) - 1) = phrase

Digits == ("5" :> 5) @@ ("20" :> 20) @@ ("60" :> 60)

\* the positions where r"retry after (\d+)" matches, re.IGNORECASE
RetryAfterMatches(message) ==
    { i \in 1..(Len(message) - 2) :
        /\ Lower(message[i]) = "retry"
        /\ Lower(message[i + 1]) = "after"
        /\ message[i + 2] \in DOMAIN Digits }

parse_wait_time_from_error_message(message) ==
    IF RetryAfterMatches(message) # {}
    THEN LET i == CHOOSE j \in RetryAfterMatches(message) :
                      \A k \in RetryAfterMatches(message) : j <= k
         IN  Digits[message[i + 2]]
    ELSE default_wait_time

\* the test of utils.py line 157 on a ValueError
MentionsAuthentication(message) ==
    \/ Contains(message, <<"API", "key">>)
    \/ Contains(LowerAll(message), <<"authentication">>)

\* the errors the resume_builder handlers treat as authentication errors
IsAuthenticationError(e) ==
    \/ e.class = "HTTPStatusError" /\ e.status = 401
    \/ e.class = "ValueError" /\ MentionsAuthentication(e.message)

\* the except clause of utils.py that handles e, and the branch it takes
U_Handler(e) ==
    CASE e.class = "HTTPStatusError" /\ e.status = NoResponse -> "attribute_error"
      [] e.class = "HTTPStatusError" /\ e.status = 401 -> "auth"
      [] e.class = "HTTPStatusError" /\ e.status \notin {401, NoResponse} -> "backoff"
      [] e.class = "RateLimitError" -> "wait"
      [] e.class = "ValueError" /\ MentionsAuthentication(e.message) -> "auth"
      [] e.class = "ValueError" /\ ~MentionsAuthentication(e.message) -> "backoff"
      [] OTHER -> "backoff"

\* a backend error is an authentication error or a transient one; an
\* HTTPError without a response is no authentication error
OutcomeKind(e) == IF IsAuthenticationError(e) THEN "auth" ELSE "transient"

(***************************************************************************)
(* Messages: the argument of __call__.                                     *)
(***************************************************************************)
Msg(type, text, msgs) == [type |-> type, text |-> text, messages |-> msgs]

Messages ==
    { Msg("StringPromptValue", "a", <<>>),
      Msg("ChatPromptValue", "", <<"a", "b">>),
      Msg("list", "", <<"a", "b">>) }

NoMessages == Msg("none", "", <<>>)

(***************************************************************************)
(* Raw replies of a backend.                                               *)
(***************************************************************************)
AttrNames == {"content", "response_metadata", "id", "usage_metadata"}

RawReply(type, attrs, content, rm, id, um) ==
    [type |-> type, attrs |-> attrs, content |-> content,
     response_metadata |-> rm, id |-> id, usage_metadata |-> um]

\* the AIMessage DeepseekModel.invoke and the fallback branch build
LocalAIMessage(content, id) ==
    RawReply("AIMessage", AttrNames, content,
             [model_name |-> "deepseek-r1", finish_reason |-> "stop"], id,
             [input_tokens |-> 0, output_tokens |-> 0, total_tokens |-> 0])

NoReply == RawReply("NoReply", {}, "", NoneDict, None, NoneDict)

Replies ==
    { LocalAIMessage("hello", "deepseek_response"),
      RawReply("AIMessage", AttrNames, "hi",
               [model_name |-> "gpt-4o-mini"], "run-1",
               [input_tokens |-> 10, output_tokens |-> 5, total_tokens |-> 15]),
      RawReply("AIMessage", AttrNames, "hi", EmptyDict, None, NoneDict),
      RawReply("str", {}, "plain text", NoneDict, None, NoneDict) }

FallbackResponses == {"fallback text"}

\* a conversion that gives every value the text of an object
Str_object(r) == "<object>"

\* str(llmresult)
Str(r) ==
    CASE r.type = "str" -> r.content
      [] r.type = "NoneType" -> "None"
      [] OTHER -> "<object>"

(***************************************************************************)
(* Normalizers.                                                            *)
(***************************************************************************)
ParsedReply(content, rm, id, um) ==
    [content |-> content, response_metadata |-> rm, id |-> id,
     usage_metadata |-> um]

default_metadata ==
    [model_name |-> "phi3:latest", system_fingerprint |-> "",
     finish_reason |-> "stop", logprobs |-> None]

default_usage == [input_tokens |-> 0, output_tokens |-> 0, total_tokens |-> 0]

\* the try block of llm_manager.py parse_llmresult raises (AttributeError):
\* llmresult has no content, or a truthy metadata value has no get
M_extraction_raises(r) ==
    \/ "content" \notin r.attrs
    \/ /\ "response_metadata" \in r.attrs
       /\ Truthy(r.response_metadata)
       /\ ~IsDict(r.response_metadata)
    \/ /\ "usage_metadata" \in r.attrs
       /\ Truthy(r.usage_metadata)
       /\ ~IsDict(r.usage_metadata)

\* a handler that returns the text alone
error_record_bare(r) == [content |-> Str(r)]

\* the record the except clause of llm_manager.py parse_llmresult returns
error_record(r) ==
    ParsedReply(Str(r),
                [model_name |-> "phi3:latest", system_fingerprint |-> "",
                 finish_reason |-> "stop", logprobs |-> None],
                "error_parsing_response",
                [input_tokens |-> 0, output_tokens |-> 0, total_tokens |-> 0])

\* llm_manager.py parse_llmresult
M_parse_llmresult(r) ==
    IF M_extraction_raises(r)
    THEN error_record(r)
    ELSE LET response_metadata ==
                 IF "response_metadata" \in r.attrs /\ Truthy(r.response_metadata)
                 THEN r.response_metadata ELSE default_metadata
             id_ == IF "id" \in r.attrs THEN r.id ELSE "local_model_response"
             usage_metadata ==
                 IF "usage_metadata" \in r.attrs /\ Truthy(r.usage_metadata)
                 THEN r.usage_metadata ELSE default_usage
         IN  ParsedReply(
                 r.content,
                 [model_name |-> Get(response_metadata, "model_name", "phi3:latest"),
                  system_fingerprint |-> Get(response_metadata, "system_fingerprint", ""),
                  finish_reason |-> Get(response_metadata, "finish_reason", "stop"),
                  logprobs |-> Get(response_metadata, "logprobs", None)],
                 id_,
                 [input_tokens |-> Get(usage_metadata, "input_tokens", 0),
                  output_tokens |-> Get(usage_metadata, "output_tokens", 0),
                  total_tokens |-> Get(usage_metadata, "total_tokens", 0)])

\* utils.py parse_llmresult raises (AttributeError) on these replies
U_parse_raises(r) ==
    \/ r.attrs # AttrNames
    \/ ~IsDict(r.response_metadata)
    \/ ~IsDict(r.usage_metadata)

\* utils.py parse_llmresult
U_parse_llmresult(r) ==
    ParsedReply(
        r.content,
        [model_name |-> Get(r.response_metadata, "model_name", ""),
         system_fingerprint |-> Get(r.response_metadata, "system_fingerprint", ""),
         finish_reason |-> Get(r.response_metadata, "finish_reason", ""),
         logprobs |-> Get(r.response_metadata, "logprobs", None)],
        r.id,
        [input_tokens |-> Get(r.usage_metadata, "input_tokens", 0),
         output_tokens |-> Get(r.usage_metadata, "output_tokens", 0),
         total_tokens |-> Get(r.usage_metadata, "total_tokens", 0)])

(***************************************************************************)
(* Call logger (LLMLogger.log_request; the two copies convert and write    *)
(* alike).  Prices are in units of 10^-8 dollars per token.                *)
(***************************************************************************)
\* prompts.messages raises AttributeError unless prompts has the attribute
HasMessages(prompts) == prompts.type = "ChatPromptValue"

log_request_raises_on_prompts(prompts) ==
    prompts.type # "StringPromptValue" /\ ~HasMessages(prompts)

\* a logger that records the text sent to the backend
ConvertPrompts_flattened(prompts) ==
    [kind |-> "text", text |-> "flattened", prompt_ |-> <<>>]

\* the value logged under "prompts": the text, or prompt_i -> content
ConvertPrompts(prompts) ==
    IF prompts.type = "StringPromptValue"
    THEN [kind |-> "text", text |-> prompts.text, prompt_ |-> <<>>]
    ELSE [kind |-> "dict", text |-> "",
          prompt_ |-> [i \in 1..Len(prompts.messages) |-> prompts.messages[i]]]

total_cost(input_tokens, output_tokens) ==
    input_tokens * prompt_price_per_token
        + output_tokens * completion_price_per_token

LogEntry(prompts, parsed_reply, now) ==
    [model |-> parsed_reply.response_metadata.model_name,
     time |-> now,
     prompts |-> ConvertPrompts(prompts),
     replies |-> parsed_reply.content,
     total_tokens |-> parsed_reply.usage_metadata.total_tokens,
     input_tokens |-> parsed_reply.usage_metadata.input_tokens,
     output_tokens |-> parsed_reply.usage_metadata.output_tokens,
     total_cost |-> total_cost(parsed_reply.usage_metadata.input_tokens,
                               parsed_reply.usage_metadata.output_tokens)]

\* a write that never reaches the file
AppendLine_lost(file, entry) == file

\* a file opened with "w": the write replaces what was there
AppendLine_truncating(file, entry) == <<entry>>

\* open(calls_log, "a") ... f.write(json_string + "\n")
AppendLine(file, entry) == Append(file, entry)

(***************************************************************************)
(* The prompt a backend is given.  A text is the sequence of its parts.    *)
(***************************************************************************)
TextPrompt(parts) == [type |-> "str", parts |-> parts]

\* sep.join(contents)
Join(contents, sep) ==
    [i \in 1..(2 * Len(contents) - 1) |->
        IF i % 2 = 1 THEN contents[(i + 1) \div 2] ELSE sep]

\* str(messages)
StrOfMessages(m) == TextPrompt(<<"repr", m.type>>)

\* isinstance(self.llm.model, DeepseekModel.__class__) (llm_manager.py line
\* 379): DeepseekModel.__class__ is the metaclass ABCMeta, and no model
\* object is an instance of it
IsInstanceOfDeepseekClass == FALSE

\* text_prompt of llm_manager.py lines 380-384
M_text_prompt(m) ==
    IF m.type = "list"
    THEN TextPrompt(Join(m.messages, "\n\n"))
    ELSE StrOfMessages(m)

\* the argument __call__ of llm_manager.py gives self.llm.invoke
M_InvokeArgument(m) ==
    IF IsInstanceOfDeepseekClass THEN M_text_prompt(m) ELSE m

\* prompt_text of DeepseekModel.invoke, which AIAdapter.invoke hands the prompt to
DeepseekModel_prompt_text(prompt) ==
    IF prompt.type = "list"
    THEN TextPrompt(Join(prompt.messages, "\n"))
    ELSE prompt

\* what the model behind the adapter receives from an attempt of llm_manager.py
M_BackendInput(m) == DeepseekModel_prompt_text(M_InvokeArgument(m))

\* text_prompt of the fallback branch, utils.py lines 110-114
U_text_prompt(m) ==
    IF m.type = "list"
    THEN TextPrompt(Join(m.messages, "\n\n"))
    ELSE StrOfMessages(m)

(***************************************************************************)
(* AIAdapter (llm_manager.py).                                             *)
(***************************************************************************)
NoModel == [class |-> "none"]

\* Ollama(model=llm_model)
Ollama(llm_model) == [class |-> "Ollama", model |-> llm_model]

\* DeepseekModel(api_key, llm_model): the key is not kept
DeepseekModel(api_key, llm_model) ==
    [class |-> "DeepseekModel", model |-> Ollama(llm_model)]

\* the arguments of a constructor or _create_model call
Args(config, api_key) == [config |-> config, api_key |-> api_key]

NoArgs == Args(NoneDict, None)

\* instance: __init__ returned; model: self.model; built: the arguments of the
\* DeepseekModel constructions made; requested and created: the arguments and
\* the result of the latest _create_model call
Adapter(instance, args, model, built, requested, created) ==
    [instance |-> instance, args |-> args, model |-> model, built |-> built,
     requested |-> requested, created |-> created]

NoAdapter == Adapter(FALSE, NoArgs, NoModel, <<>>, NoArgs, NoModel)

Configs ==
    { EmptyDict,
      [llm_model_type |-> "openai", llm_model |-> "gpt-4o-mini"],
      [llm_model_type |-> "claude", llm_model |-> "claude-3-5-sonnet"],
      [llm_model_type |-> "ollama", llm_model |-> "llama3"],
      [llm_model_type |-> "gemini", llm_model |-> "gemini-pro"],
      [llm_model_type |-> "huggingface", llm_model |-> "mistral-7b"] }

ApiKeys == {None, "", "sk-1"}

ConstructionError == "ValueError: failed to create local model"

\* a _create_local_model that hands back no model where the build fails
create_local_model_deferred(build_ok) ==
    [raises |-> FALSE,
     built |-> [api_key |-> "", llm_model |-> "phi3:latest"],
     model |-> IF build_ok THEN DeepseekModel("", "phi3:latest") ELSE NoModel]

\* AIAdapter._create_local_model: one DeepseekModel("", "phi3:latest"), and
\* ValueError where building it raises
create_local_model(build_ok) ==
    [raises |-> ~build_ok,
     built |-> [api_key |-> "", llm_model |-> "phi3:latest"],
     model |-> IF build_ok THEN DeepseekModel("", "phi3:latest") ELSE NoModel]

\* a _create_model that builds what the configuration names
create_model_configured(config, api_key, build_ok) ==
    [raises |-> ~build_ok,
     built |-> [api_key |-> api_key,
                llm_model |-> Get(config, "llm_model", "phi3:latest")],
     model |-> IF build_ok
               THEN DeepseekModel(api_key, Get(config, "llm_model", "phi3:latest"))
               ELSE NoModel]

\* AIAdapter._create_model(config, api_key)
create_model(config, api_key, build_ok) == create_local_model(build_ok)

(***************************************************************************)
(* The retry loop, shared shapes.                                          *)
(***************************************************************************)
Invokers == {"llm_manager", "resume_builder"}

\* a loop that runs once more than range(n) does
InRange_inclusive(i, n) == i <= n

\* for attempt in range(n): the loop body runs while the index is below n
InRange(i, n) == i < n

\* a doubling that stops at one hour
NextRetryDelay_capped(d) == IF d * 2 > 3600 THEN 3600 ELSE d * 2

\* a delay that is never doubled
NextRetryDelay_constant(d) == d

\* retry_delay *= 2
NextRetryDelay(d) == d * 2

\* return reply (llm_manager.py line 398, utils.py line 129)
ReturnValue(raw_reply, parsed_reply) == raw_reply

\* a test of the flag with its sense inverted
UsesFallback_inverted(auth_error, fallback) == ~auth_error /\ fallback # None

\* a test for a missing fallback instead of a present one
UsesFallback_unset(auth_error, fallback) == auth_error /\ fallback = None

\* a switch that outlives the invocation that made it
UsesFallback_sticky(auth_error, fallback) == fallback # None

\* if auth_error_encountered and self.fallback_llm (utils.py line 106)
UsesFallback(auth_error, fallback) == auth_error /\ fallback # None

\* a handler that goes on to the next attempt whatever _initialize_fallback returns
FallbackUnavailable_ignored(fallback, initialized) == FALSE

\* not self.fallback_llm and not self._initialize_fallback() (utils.py lines 137, 161)
FallbackUnavailable(fallback, initialized) == fallback = None /\ ~initialized

\* a continue that repeats the iteration instead of moving to the next
AfterSwitch_stay(i) == i

\* a switch that starts the attempts over
AfterSwitch_reset(i) == 0

\* continue (utils.py lines 142, 166): the for loop hands out the next index
AfterSwitch(i) == i + 1

Init ==
    /\ invoker \in Invokers
    /\ pc = "idle"
    /\ messages = NoMessages
    /\ attempt = 0
    /\ retry_delay = 0
    /\ auth_error_encountered = FALSE
    /\ fallback_llm = None
    /\ is_using_fallback = FALSE
    /\ reply = NoReply
    /\ ret = NoReply
    /\ raised = "none"
    /\ log = <<>>
    /\ calls = 0
    /\ last_called = "none"
    /\ primary_outcomes = {}
    /\ fallback_outcomes = {}
    /\ backoffs = 0
    /\ last_sleep = 0
    /\ invocations = 0
    /\ sent = NoMessages
    /\ adapter = NoAdapter
    /\ callee = NoCallee
    /\ current_time = NoTime

\* the caller enters __call__(messages)
Enter(m, delay) ==
    /\ pc \in {"idle", "done", "failed"}
    /\ invocations < MaxInvocations
    /\ invocations' = invocations + 1
    /\ messages' = m
    /\ pc' = "attempting"
    /\ attempt' = 0
    /\ retry_delay' = delay
    /\ auth_error_encountered' = FALSE
    /\ reply' = NoReply
    /\ ret' = NoReply
    /\ raised' = "none"
    /\ calls' = 0
    /\ last_called' = "none"
    /\ primary_outcomes' = {}
    /\ fallback_outcomes' = {}
    /\ backoffs' = 0
    /\ last_sleep' = 0
    /\ sent' = NoMessages
    /\ UNCHANGED <<invoker, fallback_llm, is_using_fallback, log, adapter, callee, current_time>>

\* time.sleep(seconds)
Sleep(seconds) == last_sleep' = seconds

\* an iteration that sleeps the current delay where the code does not sleep
NoSleep_backoff == last_sleep' = retry_delay

\* an iteration that does not call time.sleep
NoSleep == last_sleep' = 0

\* time.sleep(retry_delay); retry_delay *= 2; next iteration
Backoff ==
    /\ Sleep(retry_delay)
    /\ backoffs' = backoffs + 1
    /\ retry_delay' = NextRetryDelay(retry_delay)
    /\ attempt' = attempt + 1

\* one call of self.llm.invoke with the given kind of outcome
PrimaryCalled(kind) ==
    /\ calls' = calls + 1
    /\ last_called' = "primary"
    /\ sent' = IF invoker = "llm_manager" THEN M_BackendInput(messages) ELSE messages
    /\ primary_outcomes' = primary_outcomes \cup {kind}
    /\ UNCHANGED fallback_outcomes

\* one call of self.fallback_llm with the given kind of outcome
FallbackCalled(kind) ==
    /\ calls' = calls + 1
    /\ last_called' = "fallback"
    /\ sent' = U_text_prompt(messages)
    /\ fallback_outcomes' = fallback_outcomes \cup {kind}
    /\ UNCHANGED primary_outcomes

(***************************************************************************)
(* llm_manager.py LoggerChatModel.__call__                                 *)
(***************************************************************************)
M_Call ==
    /\ invoker = "llm_manager"
    /\ \E m \in Messages : Enter(m, DEFAULT_RETRY_DELAY)

M_Attempting ==
    /\ invoker = "llm_manager"
    /\ pc = "attempting"
    /\ InRange(attempt, MAX_RETRIES)

\* the backend returns, the reply is parsed and logged, and reply is returned
M_AttemptReturns ==
    /\ M_Attempting
    /\ ~log_request_raises_on_prompts(messages)
    /\ \E r \in Replies :
        /\ reply' = r
        /\ log' = AppendLine(log, LogEntry(messages, M_parse_llmresult(r), invocations))
        /\ ret' = ReturnValue(r, M_parse_llmresult(r))
    /\ PrimaryCalled("ok")
    /\ pc' = "done"
    /\ NoSleep
    /\ UNCHANGED <<invoker, messages, attempt, retry_delay, auth_error_encountered,
                   fallback_llm, is_using_fallback, raised, backoffs, invocations, adapter, callee, current_time>>

\* the backend returns, log_request raises (prompts without .messages, or the
\* file cannot be opened or written): except Exception
M_AttemptLogRaises ==
    /\ M_Attempting
    /\ \E io_error \in BOOLEAN :
        log_request_raises_on_prompts(messages) \/ io_error
    /\ PrimaryCalled("ok")
    /\ Backoff
    /\ UNCHANGED <<invoker, pc, messages, auth_error_encountered, fallback_llm,
                   is_using_fallback, reply, ret, raised, log, invocations, adapter, callee, current_time>>

\* the backend raises: except Exception
M_AttemptRaises ==
    /\ M_Attempting
    /\ \E e \in BackendErrors : PrimaryCalled(OutcomeKind(e))
    /\ Backoff
    /\ UNCHANGED <<invoker, pc, messages, auth_error_encountered, fallback_llm,
                   is_using_fallback, reply, ret, raised, log, invocations, adapter, callee, current_time>>

\* the loop ends: raise Exception("Failed to get a response after ... attempts")
M_Exhausted ==
    /\ invoker = "llm_manager"
    /\ pc = "attempting"
    /\ ~InRange(attempt, MAX_RETRIES)
    /\ pc' = "failed"
    /\ raised' = "Exception: failed to get a response"
    /\ UNCHANGED <<invoker, messages, attempt, retry_delay, auth_error_encountered,
                   fallback_llm, is_using_fallback, reply, ret, log, calls,
                   last_called, primary_outcomes, fallback_outcomes, backoffs,
                   last_sleep, invocations, sent, adapter, callee, current_time>>

(***************************************************************************)
(* resume_and_cover_builder/utils.py LoggerChatModel.__call__              *)
(***************************************************************************)
U_Call ==
    /\ invoker = "resume_builder"
    /\ \E m \in Messages : Enter(m, initial_retry_delay)

U_Attempting ==
    /\ invoker = "resume_builder"
    /\ pc = "attempting"
    /\ InRange(attempt, max_retries)

\* the backend this attempt calls raised or returned: count it
U_BackendCalled(kind) ==
    IF UsesFallback(auth_error_encountered, fallback_llm)
    THEN FallbackCalled(kind)
    ELSE PrimaryCalled(kind)

\* the fallback returns text: return AIMessage(content=fallback_response)
U_FallbackReturns ==
    /\ U_Attempting
    /\ UsesFallback(auth_error_encountered, fallback_llm)
    /\ \E text \in FallbackResponses :
        ret' = LocalAIMessage(text, "fallback_response")
    /\ FallbackCalled("ok")
    /\ pc' = "done"
    /\ NoSleep
    /\ UNCHANGED <<invoker, messages, attempt, retry_delay, auth_error_encountered,
                   fallback_llm, is_using_fallback, reply, raised, log, backoffs,
                   invocations, adapter, callee, current_time>>

\* the primary returns, the reply is parsed and logged, and reply is returned
U_AttemptReturns ==
    /\ U_Attempting
    /\ ~UsesFallback(auth_error_encountered, fallback_llm)
    /\ ~log_request_raises_on_prompts(messages)
    /\ \E r \in Replies :
        /\ ~U_parse_raises(r)
        /\ reply' = r
        /\ log' = AppendLine(log, LogEntry(messages, U_parse_llmresult(r), invocations))
        /\ ret' = ReturnValue(r, U_parse_llmresult(r))
    /\ PrimaryCalled("ok")
    /\ pc' = "done"
    /\ NoSleep
    /\ UNCHANGED <<invoker, messages, attempt, retry_delay, auth_error_encountered,
                   fallback_llm, is_using_fallback, raised, backoffs, invocations, adapter, callee, current_time>>

\* the primary returns a reply parse_llmresult raises on: except Exception
U_AttemptParseRaises ==
    /\ U_Attempting
    /\ ~UsesFallback(auth_error_encountered, fallback_llm)
    /\ \E r \in Replies : U_parse_raises(r)
    /\ PrimaryCalled("ok")
    /\ Backoff
    /\ UNCHANGED <<invoker, pc, messages, auth_error_encountered, fallback_llm,
                   is_using_fallback, reply, ret, raised, log, invocations, adapter, callee, current_time>>

\* the primary returns, the reply is parsed, log_request raises (prompts
\* without .messages, or the file cannot be opened or written): except Exception
U_AttemptLogRaises ==
    /\ U_Attempting
    /\ ~UsesFallback(auth_error_encountered, fallback_llm)
    /\ \E r \in Replies, io_error \in BOOLEAN :
        /\ ~U_parse_raises(r)
        /\ log_request_raises_on_prompts(messages) \/ io_error
    /\ PrimaryCalled("ok")
    /\ Backoff
    /\ UNCHANGED <<invoker, pc, messages, auth_error_encountered, fallback_llm,
                   is_using_fallback, reply, ret, raised, log, invocations, adapter, callee, current_time>>

\* the primary returns, parse_llmresult or log_request raises
U_AttemptParseOrLogRaises == U_AttemptParseRaises \/ U_AttemptLogRaises

\* the backend raises an error handled by sleeping retry_delay and doubling it
U_AttemptRaisesBackoff ==
    /\ U_Attempting
    /\ \E e \in BackendErrors :
        /\ U_Handler(e) = "backoff"
        /\ U_BackendCalled(OutcomeKind(e))
    /\ Backoff
    /\ UNCHANGED <<invoker, pc, messages, auth_error_encountered, fallback_llm,
                   is_using_fallback, reply, ret, raised, log, invocations, adapter, callee, current_time>>

\* the backend raises openai.RateLimitError: sleep the wait time of its message
U_AttemptRaisesRateLimit ==
    /\ U_Attempting
    /\ \E e \in BackendErrors :
        /\ U_Handler(e) = "wait"
        /\ U_BackendCalled(OutcomeKind(e))
        /\ Sleep(parse_wait_time_from_error_message(e.message))
    /\ attempt' = attempt + 1
    /\ UNCHANGED <<invoker, pc, messages, retry_delay, auth_error_encountered,
                   fallback_llm, is_using_fallback, reply, ret, raised, log,
                   backoffs, invocations, adapter, callee, current_time>>

\* a handler that builds a fallback at every authentication error
Constructs_again(fallback, initialized) == initialized

\* not self.fallback_llm and ... self._initialize_fallback() (utils.py lines 137,
\* 161): the call is made, and assigns self.fallback_llm, only when the
\* instance holds no fallback
Constructs(fallback, initialized) == fallback = None /\ initialized

\* Ollama(model="deepseek-r1:32b"): a new object, distinct from the one held
NewOllama(held) == IF held = None THEN "Ollama" ELSE held \o " (another)"

\* the outcomes _initialize_fallback can have where the handler calls it: the
\* handler calls it only when the instance has no fallback
InitializeOutcomes(fallback) == IF fallback = None THEN BOOLEAN ELSE {TRUE}

\* the backend raises an authentication error: switch to the fallback, which
\* _initialize_fallback builds when the instance has none
U_AttemptRaisesAuth ==
    /\ U_Attempting
    /\ \E e \in BackendErrors, initialized \in InitializeOutcomes(fallback_llm) :
        /\ U_Handler(e) = "auth"
        /\ U_BackendCalled(OutcomeKind(e))
        /\ auth_error_encountered' = TRUE
        /\ fallback_llm' =
               IF Constructs(fallback_llm, initialized)
               THEN NewOllama(fallback_llm)
               ELSE fallback_llm
        /\ is_using_fallback' =
               IF Constructs(fallback_llm, initialized) THEN TRUE ELSE is_using_fallback
        /\ IF FallbackUnavailable(fallback_llm, initialized)
           THEN /\ pc' = "failed"
                /\ raised' = "ValueError: fallback initialization failed"
                /\ attempt' = attempt
           ELSE /\ pc' = pc
                /\ raised' = raised
                /\ attempt' = AfterSwitch(attempt)
    /\ NoSleep
    /\ UNCHANGED <<invoker, messages, retry_delay, reply, ret, log, backoffs,
                   invocations, adapter, callee, current_time>>

\* the backend raises an HTTPError that has no response: the handler's test
\* err.response.status_code raises AttributeError, which no clause of the try
\* statement handles any more, so it leaves __call__
U_AttemptRaisesWithoutResponse ==
    /\ U_Attempting
    /\ \E e \in BackendErrors :
        /\ U_Handler(e) = "attribute_error"
        /\ U_BackendCalled(OutcomeKind(e))
    /\ pc' = "failed"
    /\ raised' = "AttributeError: NoneType has no status_code"
    /\ NoSleep
    /\ UNCHANGED <<invoker, messages, attempt, retry_delay, auth_error_encountered,
                   fallback_llm, is_using_fallback, reply, ret, log, backoffs,
                   invocations, adapter, callee, current_time>>

\* the loop ends: raise Exception("Failed to get a response from the model ...")
U_Exhausted ==
    /\ invoker = "resume_builder"
    /\ pc = "attempting"
    /\ ~InRange(attempt, max_retries)
    /\ pc' = "failed"
    /\ raised' = "Exception: failed to get a response"
    /\ UNCHANGED <<invoker, messages, attempt, retry_delay, auth_error_encountered,
                   fallback_llm, is_using_fallback, reply, ret, log, calls,
                   last_called, primary_outcomes, fallback_outcomes, backoffs,
                   last_sleep, invocations, sent, adapter, callee, current_time>>

Next ==
    \/ M_Call
    \/ M_AttemptReturns
    \/ M_AttemptLogRaises
    \/ M_AttemptRaises
    \/ M_Exhausted
    \/ U_Call
    \/ U_FallbackReturns
    \/ U_AttemptReturns
    \/ U_AttemptParseRaises
    \/ U_AttemptLogRaises
    \/ U_AttemptRaisesBackoff
    \/ U_AttemptRaisesRateLimit
    \/ U_AttemptRaisesAuth
    \/ U_AttemptRaisesWithoutResponse
    \/ U_Exhausted

Spec == Init /\ [][Next]_vars

(***************************************************************************)
(* The normalizer alone: llm_manager.py parse_llmresult applied to one raw *)
(* reply.  reply holds the argument llmresult and ret the record returned; *)
(* the variables of the retry loop stay as constructed.                    *)
(***************************************************************************)
ResponseMetadatas ==
    { NoneDict, EmptyDict,
      [model_name |-> "gpt-4o-mini"],
      [model_name |-> "gpt-4o-mini", system_fingerprint |-> "fp_1",
       finish_reason |-> "length", logprobs |-> "lp"],
      WrongType(TRUE), WrongType(FALSE) }

Ids == {None, "", "run-1"}

UsageMetadatas ==
    { NoneDict, EmptyDict,
      [total_tokens |-> 15],
      [input_tokens |-> 10, output_tokens |-> 5, total_tokens |-> 15],
      WrongType(TRUE), WrongType(FALSE) }

\* objects with any subset of the four attributes; an attribute the object
\* lacks has no value
Objects ==
    { r \in { RawReply("object", attrs, "hi", rm, id, um) :
                attrs \in SUBSET AttrNames, rm \in ResponseMetadatas,
                id \in Ids, um \in UsageMetadatas } :
        /\ "response_metadata" \notin r.attrs => r.response_metadata = NoneDict
        /\ "id" \notin r.attrs => r.id = None
        /\ "usage_metadata" \notin r.attrs => r.usage_metadata = NoneDict }

\* values that are no objects with attributes: a bare string, None
NonObjects ==
    { RawReply("str", {}, "plain text", NoneDict, None, NoneDict),
      RawReply("NoneType", {}, "", NoneDict, None, NoneDict) }

RawReplies == Objects \cup NonObjects \cup Replies

NoParsedReply == [py_none |-> TRUE]

NormalizerInit ==
    /\ invoker = "llm_manager"
    /\ pc = "idle"
    /\ messages = NoMessages
    /\ attempt = 0
    /\ retry_delay = 0
    /\ auth_error_encountered = FALSE
    /\ fallback_llm = None
    /\ is_using_fallback = FALSE
    /\ reply \in RawReplies
    /\ ret = NoParsedReply
    /\ raised = "none"
    /\ log = <<>>
    /\ calls = 0
    /\ last_called = "none"
    /\ primary_outcomes = {}
    /\ fallback_outcomes = {}
    /\ backoffs = 0
    /\ last_sleep = 0
    /\ invocations = 0
    /\ sent = NoMessages
    /\ adapter = NoAdapter
    /\ callee = NoCallee
    /\ current_time = NoTime

\* parse_llmresult(llmresult) returns from its try block
M_NormalizeExtracts ==
    /\ pc = "idle"
    /\ ~M_extraction_raises(reply)
    /\ ret' = M_parse_llmresult(reply)
    /\ pc' = "done"
    /\ UNCHANGED <<invoker, messages, attempt, retry_delay, auth_error_encountered,
                   fallback_llm, is_using_fallback, reply, raised, log, calls,
                   last_called, primary_outcomes, fallback_outcomes, backoffs,
                   last_sleep, invocations, sent, adapter, callee, current_time>>

\* parse_llmresult(llmresult) returns from its except clause
M_NormalizeRecovers ==
    /\ pc = "idle"
    /\ M_extraction_raises(reply)
    /\ ret' = M_parse_llmresult(reply)
    /\ pc' = "done"
    /\ UNCHANGED <<invoker, messages, attempt, retry_delay, auth_error_encountered,
                   fallback_llm, is_using_fallback, reply, raised, log, calls,
                   last_called, primary_outcomes, fallback_outcomes, backoffs,
                   last_sleep, invocations, sent, adapter, callee, current_time>>

NormalizerNext == M_NormalizeExtracts \/ M_NormalizeRecovers

NormalizerSpec == NormalizerInit /\ [][NormalizerNext]_vars

(***************************************************************************)
(* The call logger alone: a sequence of LLMLogger.log_request calls on one *)
(* log file.  messages and reply hold the arguments prompts and            *)
(* parsed_reply of the latest call, raised the exception it left with,     *)
(* invocations the calls made, and invoker the copy of the class.          *)
(***************************************************************************)
\* the prompts argument: the arguments of __call__, a mapping, a plain
\* string, a number, an object without the attribute messages
Prompts ==
    Messages \cup
    { Msg("dict", "", <<"a">>),
      Msg("str", "hello", <<>>),
      Msg("int", "7", <<>>),
      Msg("object", "", <<>>) }

\* the parsed_reply argument
ParsedReplies == { M_parse_llmresult(r) : r \in Replies }

LoggerInit ==
    /\ invoker \in Invokers
    /\ pc = "idle"
    /\ messages = NoMessages
    /\ attempt = 0
    /\ retry_delay = 0
    /\ auth_error_encountered = FALSE
    /\ fallback_llm = None
    /\ is_using_fallback = FALSE
    /\ reply = NoParsedReply
    /\ ret = NoReply
    /\ raised = "none"
    /\ log = <<>>
    /\ calls = 0
    /\ last_called = "none"
    /\ primary_outcomes = {}
    /\ fallback_outcomes = {}
    /\ backoffs = 0
    /\ last_sleep = 0
    /\ invocations = 0
    /\ sent = NoMessages
    /\ adapter = NoAdapter
    /\ callee = NoCallee
    /\ current_time = NoTime

\* log_request(prompts, parsed_reply) is called
LogRequestCalled(prompts, parsed_reply) ==
    /\ invocations < MaxLogCalls
    /\ invocations' = invocations + 1
    /\ messages' = prompts
    /\ reply' = parsed_reply
    /\ UNCHANGED <<invoker, attempt, retry_delay, auth_error_encountered,
                   fallback_llm, is_using_fallback, ret, calls, last_called,
                   primary_outcomes, fallback_outcomes, backoffs, last_sleep, sent, adapter, callee, current_time>>

\* the prompts are converted and the entry is appended to the file
LogRequestWrites ==
    \E prompts \in Prompts, parsed_reply \in ParsedReplies :
        /\ LogRequestCalled(prompts, parsed_reply)
        /\ ~log_request_raises_on_prompts(prompts)
        /\ log' = AppendLine(log, LogEntry(prompts, parsed_reply, invocations + 1))
        /\ raised' = "none"
        /\ pc' = "done"

\* prompts.messages raises AttributeError
LogRequestRaisesOnPrompts ==
    \E prompts \in Prompts, parsed_reply \in ParsedReplies :
        /\ LogRequestCalled(prompts, parsed_reply)
        /\ log_request_raises_on_prompts(prompts)
        /\ raised' = "AttributeError"
        /\ pc' = "failed"
        /\ UNCHANGED log

\* open(calls_log, "a") raises OSError
LogRequestRaisesOnOpen ==
    \E prompts \in Prompts, parsed_reply \in ParsedReplies :
        /\ LogRequestCalled(prompts, parsed_reply)
        /\ ~log_request_raises_on_prompts(prompts)
        /\ raised' = "OSError"
        /\ pc' = "failed"
        /\ UNCHANGED log

LoggerNext ==
    \/ LogRequestWrites
    \/ LogRequestRaisesOnPrompts
    \/ LogRequestRaisesOnOpen

LoggerSpec == LoggerInit /\ [][LoggerNext]_vars

(***************************************************************************)
(* The adapter alone: AIAdapter(config, api_key), then _create_model calls *)
(* on the instance.  The variables of the retry loop stay as constructed.  *)
(***************************************************************************)
AdapterInit ==
    /\ invoker = "llm_manager"
    /\ pc = "idle"
    /\ messages = NoMessages
    /\ attempt = 0
    /\ retry_delay = 0
    /\ auth_error_encountered = FALSE
    /\ fallback_llm = None
    /\ is_using_fallback = FALSE
    /\ reply = NoReply
    /\ ret = NoReply
    /\ raised = "none"
    /\ log = <<>>
    /\ calls = 0
    /\ last_called = "none"
    /\ primary_outcomes = {}
    /\ fallback_outcomes = {}
    /\ backoffs = 0
    /\ last_sleep = 0
    /\ invocations = 0
    /\ sent = NoMessages
    /\ adapter = NoAdapter
    /\ callee = NoCallee
    /\ current_time = NoTime

AdapterFrame ==
    UNCHANGED <<invoker, messages, attempt, retry_delay, auth_error_encountered,
                fallback_llm, is_using_fallback, reply, ret, log, calls,
                last_called, primary_outcomes, fallback_outcomes, backoffs,
                last_sleep, invocations, sent, callee, current_time>>

\* AIAdapter(config, api_key): self.model = self._create_local_model()
AIAdapterConstructed ==
    \E config \in Configs, api_key \in ApiKeys :
        LET made == create_local_model(TRUE)
        IN  /\ pc = "idle"
            /\ ~made.raises
            /\ adapter' = Adapter(TRUE, Args(config, api_key), made.model,
                                  <<made.built>>, NoArgs, NoModel)
            /\ pc' = "done"
            /\ UNCHANGED raised
            /\ AdapterFrame

\* AIAdapter(config, api_key) where building the model raises
AIAdapterConstructionFails ==
    \E config \in Configs, api_key \in ApiKeys :
        LET made == create_local_model(FALSE)
        IN  /\ pc = "idle"
            /\ adapter' = Adapter(~made.raises, Args(config, api_key), made.model,
                                  <<made.built>>, NoArgs, NoModel)
            /\ pc' = IF made.raises THEN "failed" ELSE "done"
            /\ raised' = IF made.raises THEN ConstructionError ELSE raised
            /\ AdapterFrame

\* adapter._create_model(config, api_key) returns a model
CreateModelReturns ==
    \E config \in Configs, api_key \in ApiKeys :
        LET made == create_model(config, api_key, TRUE)
        IN  /\ pc = "done"
            /\ adapter.instance
            /\ Len(adapter.built) < MaxModelsBuilt
            /\ ~made.raises
            /\ adapter' = [adapter EXCEPT !.built = Append(@, made.built),
                                          !.requested = Args(config, api_key),
                                          !.created = made.model]
            /\ UNCHANGED <<pc, raised>>
            /\ AdapterFrame

\* adapter._create_model(config, api_key) where building the model raises
CreateModelRaises ==
    \E config \in Configs, api_key \in ApiKeys :
        LET made == create_model(config, api_key, FALSE)
        IN  /\ pc = "done"
            /\ adapter.instance
            /\ Len(adapter.built) < MaxModelsBuilt
            /\ adapter' = [adapter EXCEPT !.built = Append(@, made.built),
                                          !.requested = Args(config, api_key),
                                          !.created = made.model]
            /\ raised' = IF made.raises THEN ConstructionError ELSE raised
            /\ UNCHANGED pc
            /\ AdapterFrame

AdapterNext ==
    \/ AIAdapterConstructed
    \/ AIAdapterConstructionFails
    \/ CreateModelReturns
    \/ CreateModelRaises

AdapterSpec == AdapterInit /\ [][AdapterNext]_vars

(***************************************************************************)
(* Two threads in __call__ of one resume_and_cover_builder LoggerChatModel.*)
(* The locals of __call__ (pc, attempt, retry_delay,                       *)
(* auth_error_encountered, last_sleep), the backend object a call in       *)
(* progress went to (callee) and what a thread called, returned or raised  *)
(* are one per thread here, functions of the thread; the attributes        *)
(* self.fallback_llm and self.is_using_fallback and the log file belong to *)
(* the instance and are one for both.  A step of a thread holds at most    *)
(* one read or write of an attribute of the instance: another thread runs  *)
(* while a thread waits in a backend call, in a sleep or in the            *)
(* construction of the Ollama fallback, and between any two statements,    *)
(* the logger calls of lines 91 and 107 among them.  log_request reads the *)
(* clock at line 42 and appends to the file at lines 73-75: current_time   *)
(* is what a thread read, and the clock is the number of invocations       *)
(* entered so far.                                                         *)
(***************************************************************************)
NumThreads == 2
Threads == 1..NumThreads

\* the Ollama object the _initialize_fallback call of thread t constructs
OllamaBuiltBy(t) == "Ollama built by thread " \o ToString(t)

\* what the backends do while two threads share them
ThreadBackendErrors ==
    { HTTPStatusError(401), RateLimitError(<<"Rate", "limit", "reached">>) }

ThreadMessages == Msg("ChatPromptValue", "", <<"a", "b">>)

ThreadReply ==
    RawReply("AIMessage", AttrNames, "hi",
             [model_name |-> "gpt-4o-mini"], "run-1",
             [input_tokens |-> 10, output_tokens |-> 5, total_tokens |-> 15])

ThreadsInit ==
    /\ invoker = "resume_builder"
    /\ pc = [t \in Threads |-> "idle"]
    /\ messages = ThreadMessages
    /\ attempt = [t \in Threads |-> 0]
    /\ retry_delay = [t \in Threads |-> 0]
    /\ auth_error_encountered = [t \in Threads |-> FALSE]
    /\ fallback_llm = None
    /\ is_using_fallback = FALSE
    /\ reply = NoReply
    /\ ret = [t \in Threads |-> NoReply]
    /\ raised = [t \in Threads |-> "none"]
    /\ log = <<>>
    /\ calls = 0
    /\ last_called = [t \in Threads |-> "none"]
    /\ primary_outcomes = {}
    /\ fallback_outcomes = {}
    /\ backoffs = 0
    /\ last_sleep = [t \in Threads |-> 0]
    /\ invocations = 0
    /\ sent = NoMessages
    /\ adapter = NoAdapter
    /\ callee = [t \in Threads |-> NoCallee]
    /\ current_time = [t \in Threads |-> NoTime]

ThreadsFrame ==
    UNCHANGED <<invoker, messages, reply, calls, primary_outcomes,
                fallback_outcomes, backoffs, sent, adapter>>

\* thread t enters __call__(messages)
T_Call(t) ==
    /\ pc[t] = "idle"
    /\ pc' = [pc EXCEPT ![t] = "attempting"]
    /\ attempt' = [attempt EXCEPT ![t] = 0]
    /\ retry_delay' = [retry_delay EXCEPT ![t] = initial_retry_delay]
    /\ auth_error_encountered' = [auth_error_encountered EXCEPT ![t] = FALSE]
    /\ invocations' = invocations + 1
    /\ UNCHANGED <<fallback_llm, is_using_fallback, ret, raised, log,
                   last_called, last_sleep, callee, current_time>>
    /\ ThreadsFrame

\* thread t is at the top of an iteration of its loop
T_Attempting(t) ==
    /\ pc[t] = "attempting"
    /\ InRange(attempt[t], max_retries)

\* the test of line 106 fails as thread t reads self.fallback_llm: the thread
\* goes on to reply = self.llm.invoke(messages) and waits in it
T_CallsPrimary(t) ==
    /\ T_Attempting(t)
    /\ ~UsesFallback(auth_error_encountered[t], fallback_llm)
    /\ pc' = [pc EXCEPT ![t] = "calling"]
    /\ callee' = [callee EXCEPT ![t] = "primary"]
    /\ UNCHANGED <<attempt, retry_delay, auth_error_encountered, fallback_llm,
                   is_using_fallback, ret, raised, log, last_called,
                   last_sleep, invocations, current_time>>
    /\ ThreadsFrame

\* the test of line 106 holds as thread t reads self.fallback_llm, whoever
\* assigned it: the thread enters the branch, logs and builds text_prompt
T_TakesFallbackBranch(t) ==
    /\ T_Attempting(t)
    /\ UsesFallback(auth_error_encountered[t], fallback_llm)
    /\ pc' = [pc EXCEPT ![t] = "using_fallback"]
    /\ UNCHANGED <<attempt, retry_delay, auth_error_encountered, fallback_llm,
                   is_using_fallback, ret, raised, log, last_called,
                   last_sleep, invocations, callee, current_time>>
    /\ ThreadsFrame

\* line 116: thread t reads self.fallback_llm again, calls the object it
\* finds there and waits in the call
T_CallsFallback(t) ==
    /\ pc[t] = "using_fallback"
    /\ pc' = [pc EXCEPT ![t] = "calling"]
    /\ callee' = [callee EXCEPT ![t] = fallback_llm]
    /\ UNCHANGED <<attempt, retry_delay, auth_error_encountered, fallback_llm,
                   is_using_fallback, ret, raised, log, last_called,
                   last_sleep, invocations, current_time>>
    /\ ThreadsFrame

\* the call of thread t is over: the object it was made to is the one called
\* last by the thread
T_CallEnds(t) ==
    /\ pc[t] = "calling"
    /\ last_called' = [last_called EXCEPT ![t] = callee[t]]
    /\ callee' = [callee EXCEPT ![t] = NoCallee]

\* the primary returns to thread t: parse_llmresult, then log_request as far
\* as line 42, where it reads the clock
T_PrimaryReturns(t) ==
    /\ T_CallEnds(t)
    /\ callee[t] = "primary"
    /\ current_time' = [current_time EXCEPT ![t] = invocations]
    /\ pc' = [pc EXCEPT ![t] = "logging"]
    /\ last_sleep' = [last_sleep EXCEPT ![t] = 0]
    /\ UNCHANGED <<attempt, retry_delay, auth_error_encountered, fallback_llm,
                   is_using_fallback, ret, raised, log, invocations>>
    /\ ThreadsFrame

\* log_request lines 73-75 in thread t: the entry, stamped with the time read
\* at line 42, is appended to the file; log_request returns and __call__
\* returns reply
T_LogRequestAppends(t) ==
    /\ pc[t] = "logging"
    /\ log' = AppendLine(log, LogEntry(messages, U_parse_llmresult(ThreadReply),
                                       current_time[t]))
    /\ ret' = [ret EXCEPT ![t] = ReturnValue(ThreadReply, U_parse_llmresult(ThreadReply))]
    /\ pc' = [pc EXCEPT ![t] = "done"]
    /\ current_time' = [current_time EXCEPT ![t] = NoTime]
    /\ UNCHANGED <<attempt, retry_delay, auth_error_encountered, fallback_llm,
                   is_using_fallback, raised, last_called, last_sleep,
                   invocations, callee>>
    /\ ThreadsFrame

\* the fallback object thread t called returns to it
T_FallbackReturns(t) ==
    /\ T_CallEnds(t)
    /\ callee[t] # "primary"
    /\ \E text \in FallbackResponses :
        ret' = [ret EXCEPT ![t] = LocalAIMessage(text, "fallback_response")]
    /\ pc' = [pc EXCEPT ![t] = "done"]
    /\ last_sleep' = [last_sleep EXCEPT ![t] = 0]
    /\ UNCHANGED <<attempt, retry_delay, auth_error_encountered, fallback_llm,
                   is_using_fallback, raised, log, invocations, current_time>>
    /\ ThreadsFrame

\* the backend thread t called raises openai.RateLimitError: the handler
\* calls time.sleep(wait_time) at line 155 and the thread waits in it
T_AttemptRaisesRateLimit(t) ==
    /\ T_CallEnds(t)
    /\ \E e \in ThreadBackendErrors :
        /\ U_Handler(e) = "wait"
        /\ last_sleep' = [last_sleep EXCEPT
                              ![t] = parse_wait_time_from_error_message(e.message)]
    /\ pc' = [pc EXCEPT ![t] = "sleeping"]
    /\ UNCHANGED <<attempt, retry_delay, auth_error_encountered, fallback_llm,
                   is_using_fallback, ret, raised, log, invocations,
                   current_time>>
    /\ ThreadsFrame

\* time.sleep returns to thread t: the for of line 103 takes the next attempt
T_SleepReturns(t) ==
    /\ pc[t] = "sleeping"
    /\ pc' = [pc EXCEPT ![t] = "attempting"]
    /\ attempt' = [attempt EXCEPT ![t] = @ + 1]
    /\ UNCHANGED <<retry_delay, auth_error_encountered, fallback_llm,
                   is_using_fallback, ret, raised, log, last_called,
                   last_sleep, invocations, callee, current_time>>
    /\ ThreadsFrame

\* the backend thread t called raises an authentication error: the handler
\* reads self.fallback_llm at line 137, continues when it is set, and enters
\* _initialize_fallback, where it waits in Ollama(...), when it is not
T_AttemptRaisesAuth(t) ==
    /\ T_CallEnds(t)
    /\ \E e \in ThreadBackendErrors : U_Handler(e) = "auth"
    /\ auth_error_encountered' = [auth_error_encountered EXCEPT ![t] = TRUE]
    /\ IF fallback_llm = None
       THEN /\ pc' = [pc EXCEPT ![t] = "initializing"]
            /\ attempt' = attempt
       ELSE /\ pc' = [pc EXCEPT ![t] = "attempting"]
            /\ attempt' = [attempt EXCEPT ![t] = AfterSwitch(@)]
    /\ last_sleep' = [last_sleep EXCEPT ![t] = 0]
    /\ UNCHANGED <<retry_delay, fallback_llm, is_using_fallback, ret, raised,
                   log, invocations, current_time>>
    /\ ThreadsFrame

\* line 90: Ollama(model="deepseek-r1:32b") returns to thread t, which
\* assigns the object to self.fallback_llm, whatever is there by now, and
\* goes on to the logger call of line 91
T_InitializeFallbackAssigns(t) ==
    /\ pc[t] = "initializing"
    /\ fallback_llm' = OllamaBuiltBy(t)
    /\ pc' = [pc EXCEPT ![t] = "initialized"]
    /\ UNCHANGED <<attempt, retry_delay, auth_error_encountered,
                   is_using_fallback, ret, raised, log, last_called,
                   last_sleep, invocations, callee, current_time>>
    /\ ThreadsFrame

\* line 92: thread t sets self.is_using_fallback, _initialize_fallback
\* returns True and the handler continues with the next iteration
T_InitializeFallbackReturns(t) ==
    /\ pc[t] = "initialized"
    /\ is_using_fallback' = TRUE
    /\ pc' = [pc EXCEPT ![t] = "attempting"]
    /\ attempt' = [attempt EXCEPT ![t] = AfterSwitch(@)]
    /\ UNCHANGED <<retry_delay, auth_error_encountered, fallback_llm, ret,
                   raised, log, last_called, last_sleep, invocations, callee, current_time>>
    /\ ThreadsFrame

\* the construction raises in thread t: _initialize_fallback returns False
\* and the handler raises ValueError
T_InitializeFallbackFails(t) ==
    /\ pc[t] = "initializing"
    /\ pc' = [pc EXCEPT ![t] = "failed"]
    /\ raised' = [raised EXCEPT ![t] = "ValueError: fallback initialization failed"]
    /\ UNCHANGED <<attempt, retry_delay, auth_error_encountered, fallback_llm,
                   is_using_fallback, ret, log, last_called, last_sleep,
                   invocations, callee, current_time>>
    /\ ThreadsFrame

\* the loop of thread t ends: raise Exception("Failed to get a response ...")
T_Exhausted(t) ==
    /\ pc[t] = "attempting"
    /\ ~InRange(attempt[t], max_retries)
    /\ pc' = [pc EXCEPT ![t] = "failed"]
    /\ raised' = [raised EXCEPT ![t] = "Exception: failed to get a response"]
    /\ UNCHANGED <<attempt, retry_delay, auth_error_encountered, fallback_llm,
                   is_using_fallback, ret, log, last_called, last_sleep,
                   invocations, callee, current_time>>
    /\ ThreadsFrame

ThreadsNext ==
    \E t \in Threads :
        \/ T_Call(t)
        \/ T_CallsPrimary(t)
        \/ T_TakesFallbackBranch(t)
        \/ T_CallsFallback(t)
        \/ T_PrimaryReturns(t)
        \/ T_LogRequestAppends(t)
        \/ T_FallbackReturns(t)
        \/ T_AttemptRaisesRateLimit(t)
        \/ T_SleepReturns(t)
        \/ T_AttemptRaisesAuth(t)
        \/ T_InitializeFallbackAssigns(t)
        \/ T_InitializeFallbackReturns(t)
        \/ T_InitializeFallbackFails(t)
        \/ T_Exhausted(t)

ThreadsSpec == ThreadsInit /\ [][ThreadsNext]_vars

(***************************************************************************)
(* api_handler.py call_ollama_api.  One step is one iteration of its loop: *)
(* the request, the reading of the response, and the handler.  calls       *)
(* counts the requests of the invocation, backoffs its sleeps, log is the  *)
(* bodies posted, primary_outcomes the classes of the errors raised in the *)
(* try block.  With config.MAX_RETRIES = 3 the last iteration returns or   *)
(* raises, so the loop never runs out.                                     *)
(***************************************************************************)
config_MAX_RETRIES == 3
config_RETRY_DELAY == 5
config_LLM_MODEL == "phi3:latest"

\* the module imports requests, config and logging: the name time is not bound
TimeIsImported == FALSE

ApiPrompts == {"p", "q", ""}

\* data, the json posted
ApiRequest(prompt) == [prompt |-> prompt, model |-> config_LLM_MODEL, stream |-> FALSE]

\* what requests.post does: it raises, or returns a response with a status
\* and a body
ApiResponse(status, body) == [posted |-> TRUE, status |-> status, body |-> body]
PostRaises(class) == [posted |-> FALSE, status |-> 0, body |-> class]

ApiResults ==
    { PostRaises("ConnectionError"),
      PostRaises("Timeout"),
      ApiResponse(200, [kind |-> "dict", response |-> "text"]),
      ApiResponse(200, [kind |-> "dict", error |-> "model not found"]),
      ApiResponse(200, [kind |-> "list"]),
      ApiResponse(200, [kind |-> "invalid json"]),
      ApiResponse(500, [kind |-> "dict", error |-> "internal error"]) }

NoError == "none"

\* the exception the try block (lines 22-24) raises on a result, if any
TryBlockError(x) ==
    CASE ~x.posted -> x.body
      [] x.posted /\ x.status >= 400 -> "HTTPError"
      [] x.posted /\ x.status < 400 /\ x.body.kind = "invalid json" -> "JSONDecodeError"
      [] x.posted /\ x.status < 400 /\ x.body.kind = "list" -> "TypeError"
      [] x.posted /\ x.status < 400 /\ x.body.kind = "dict"
             /\ "response" \notin DOMAIN x.body -> "KeyError"
      [] OTHER -> NoError

\* a handler that catches every exception
IsRequestException_any(class) == TRUE

\* except requests.exceptions.RequestException: the class and its subclasses
IsRequestException(class) ==
    class \in {"RequestException", "ConnectionError", "Timeout", "HTTPError",
               "JSONDecodeError"}

\* time.sleep(config.RETRY_DELAY) where time is not a name of the module
SleepError == IF TimeIsImported THEN NoError ELSE "NameError"

ApiInit ==
    /\ invoker = "api_handler"
    /\ pc = "idle"
    /\ messages = ""
    /\ attempt = 0
    /\ retry_delay = config_RETRY_DELAY
    /\ auth_error_encountered = FALSE
    /\ fallback_llm = None
    /\ is_using_fallback = FALSE
    /\ reply = NoReply
    /\ ret = None
    /\ raised = NoError
    /\ log = <<>>
    /\ calls = 0
    /\ last_called = "none"
    /\ primary_outcomes = {}
    /\ fallback_outcomes = {}
    /\ backoffs = 0
    /\ last_sleep = 0
    /\ invocations = 0
    /\ sent = NoMessages
    /\ adapter = NoAdapter
    /\ callee = NoCallee
    /\ current_time = NoTime

ApiFrame ==
    UNCHANGED <<invoker, retry_delay, auth_error_encountered, fallback_llm,
                is_using_fallback, reply, last_called, fallback_outcomes, sent,
                adapter, callee, current_time>>

\* the caller enters call_ollama_api(prompt)
ApiCalled ==
    /\ pc \in {"idle", "done", "failed"}
    /\ invocations < MaxApiCalls
    /\ invocations' = invocations + 1
    /\ \E prompt \in ApiPrompts : messages' = prompt
    /\ pc' = "attempting"
    /\ attempt' = 0
    /\ ret' = None
    /\ raised' = NoError
    /\ calls' = 0
    /\ primary_outcomes' = {}
    /\ backoffs' = 0
    /\ last_sleep' = 0
    /\ UNCHANGED log
    /\ ApiFrame

ApiAttempting ==
    /\ pc = "attempting"
    /\ InRange(attempt, config_MAX_RETRIES)

\* requests.post(url, headers=headers, json=data)
ApiPosted ==
    /\ calls' = calls + 1
    /\ log' = Append(log, ApiRequest(messages))

\* the request succeeds: return response.json()['response']
ApiRequestReturns ==
    /\ ApiAttempting
    /\ \E x \in ApiResults :
        /\ TryBlockError(x) = NoError
        /\ ret' = x.body.response
    /\ ApiPosted
    /\ pc' = "done"
    /\ last_sleep' = 0
    /\ UNCHANGED <<messages, attempt, raised, primary_outcomes, backoffs,
                   invocations>>
    /\ ApiFrame

\* the try block raises a RequestException: sleep and go round again, or on
\* the last iteration re-raise it; the sleep itself raises when time is not
\* a name of the module
ApiRequestFails ==
    /\ ApiAttempting
    /\ \E x \in ApiResults :
        /\ TryBlockError(x) # NoError
        /\ IsRequestException(TryBlockError(x))
        /\ primary_outcomes' = primary_outcomes \cup {TryBlockError(x)}
        /\ IF attempt < config_MAX_RETRIES - 1
           THEN IF SleepError = NoError
                THEN /\ last_sleep' = config_RETRY_DELAY
                     /\ backoffs' = backoffs + 1
                     /\ attempt' = attempt + 1
                     /\ UNCHANGED <<pc, raised>>
                ELSE /\ pc' = "failed"
                     /\ raised' = SleepError
                     /\ UNCHANGED <<attempt, backoffs, last_sleep>>
           ELSE /\ pc' = "failed"
                /\ raised' = TryBlockError(x)
                /\ UNCHANGED <<attempt, backoffs, last_sleep>>
    /\ ApiPosted
    /\ UNCHANGED <<messages, ret, invocations>>
    /\ ApiFrame

\* the try block raises anything else: no clause handles it
ApiAttemptRaisesOther ==
    /\ ApiAttempting
    /\ \E x \in ApiResults :
        /\ TryBlockError(x) # NoError
        /\ ~IsRequestException(TryBlockError(x))
        /\ primary_outcomes' = primary_outcomes \cup {TryBlockError(x)}
        /\ raised' = TryBlockError(x)
    /\ ApiPosted
    /\ pc' = "failed"
    /\ UNCHANGED <<messages, attempt, ret, backoffs, last_sleep, invocations>>
    /\ ApiFrame

ApiNext ==
    \/ ApiCalled
    \/ ApiRequestReturns
    \/ ApiRequestFails
    \/ ApiAttemptRaisesOther

ApiSpec == ApiInit /\ [][ApiNext]_vars

(***************************************************************************)
(* Properties.                                                             *)
(***************************************************************************)
\* the attempt ceiling of the invoker
Ceiling == IF invoker = "llm_manager" THEN MAX_RETRIES ELSE max_retries

ExhaustionError == "Exception: failed to get a response"
FallbackInitError == "ValueError: fallback initialization failed"

\* every backend call of the invocation so far raised a transient error
OnlyTransientFailures ==
    primary_outcomes \subseteq {"transient"} /\ fallback_outcomes = {}

AnyAttempt ==
    \/ M_AttemptReturns \/ M_AttemptLogRaises \/ M_AttemptRaises
    \/ U_FallbackReturns \/ U_AttemptReturns \/ U_AttemptParseOrLogRaises
    \/ U_AttemptRaisesBackoff \/ U_AttemptRaisesRateLimit \/ U_AttemptRaisesAuth
    \/ U_AttemptRaisesWithoutResponse

\* C1: in both invokers, while every backend call fails with a transient
\* (non-authentication) error no reply is returned, the calls never exceed the
\* ceiling of 15, after the 15th call nothing but the exhaustion error can
\* follow, and the invocation fails only with the exhaustion error after
\* exactly 15 calls.  Does not hold: in the resume_builder invoker an
\* HTTPError without a response makes the handler raise AttributeError, which
\* ends the invocation after that call.
C1_ExhaustsAfterMaxRetries ==
    (pc # "idle" /\ OnlyTransientFailures) =>
        /\ pc \in {"attempting", "failed"}
        /\ ret = NoReply
        /\ calls <= Ceiling
        /\ pc = "attempting" /\ calls = Ceiling =>
               ENABLED (M_Exhausted \/ U_Exhausted) /\ ~ENABLED AnyAttempt
        /\ pc = "failed" => calls = Ceiling /\ Ceiling = 15 /\ raised = ExhaustionError

\* C2: in both invokers, when the backend returns a reply on call N after
\* failing transiently on calls 1..N-1, the invocation ends with that call
\* and returns its reply.
C2_ReturnsOnFirstSuccess ==
    [][ ( /\ pc = "attempting"
          /\ OnlyTransientFailures
          /\ "ok" \in primary_outcomes' )
        => ( /\ pc' = "done"
             /\ calls' = calls + 1
             /\ reply' \in Replies
             /\ ret' = reply' ) ]_vars

\* C3: in the llm_manager invoker the sleep after failed attempt k lasts
\* DEFAULT_RETRY_DELAY * 2^(k-1) seconds for every k up to the ceiling, with no cap.
C3_SleepDoublesFromThirty ==
    (invoker = "llm_manager" /\ pc \in {"attempting", "failed"} /\ attempt >= 1) =>
        /\ last_sleep = DEFAULT_RETRY_DELAY * Pow2(attempt - 1)
        /\ retry_delay = DEFAULT_RETRY_DELAY * Pow2(attempt)

C3_Witness ==
    /\ invoker = "llm_manager"
    /\ attempt = MAX_RETRIES
    /\ last_sleep = 30 * 16384

\* C4: in the resume_builder invoker every transient failure,
\* openai.RateLimitError included, sleeps the current retry delay and doubles
\* it.  Does not hold: the handler of openai.RateLimitError sleeps the wait
\* time parsed from the message and leaves the retry delay as it is, and an
\* HTTPError without a response ends the invocation without a sleep.
C4_EveryTransientFailureBacksOff ==
    [][ ( \/ U_AttemptRaisesBackoff
          \/ U_AttemptRaisesRateLimit
          \/ U_AttemptParseOrLogRaises
          \/ U_AttemptRaisesWithoutResponse )
        => (last_sleep' = retry_delay /\ retry_delay' = 2 * retry_delay) ]_vars

\* C5: in the resume_builder invoker, when every primary call raises an
\* authentication error and the fallback is built and never fails, the first
\* authentication error switches to the fallback and the second attempt
\* returns the fallback's reply.
C5_FallbackOnFirstAuthError ==
    ( /\ invoker = "resume_builder"
      /\ primary_outcomes = {"auth"}
      /\ fallback_outcomes \subseteq {"ok"}
      /\ raised = "none" ) =>
        /\ auth_error_encountered
        /\ fallback_llm # None
        /\ attempt = 1
        /\ pc \in {"attempting", "done"}
        /\ pc = "attempting" => calls = 1 /\ fallback_outcomes = {}
        /\ pc = "done" =>
              /\ calls = 2
              /\ last_called = "fallback"
              /\ fallback_outcomes = {"ok"}
              /\ ret \in { LocalAIMessage(text, "fallback_response") :
                             text \in FallbackResponses }

C5_Witness ==
    /\ invoker = "resume_builder"
    /\ pc = "done"
    /\ primary_outcomes = {"auth"}
    /\ fallback_outcomes = {"ok"}
    /\ calls = 2
    /\ ret.id = "fallback_response"

\* C6: in the resume_builder invoker an authentication error met while the
\* instance has no fallback and _initialize_fallback fails ends the invocation
\* at once with an error: no sleep, no further iteration, no further call.
C6_FailedFallbackInitIsTerminal ==
    [][ /\ (U_AttemptRaisesAuth /\ fallback_llm = None /\ fallback_llm' = None) =>
               /\ pc' = "failed"
               /\ raised' = FallbackInitError
               /\ attempt' = attempt
               /\ last_sleep' = 0
               /\ backoffs' = backoffs
        /\ (pc = "failed" /\ raised = FallbackInitError /\ invocations' = invocations) =>
               UNCHANGED <<calls, attempt, last_sleep, backoffs, pc>> ]_vars

C6_Witness ==
    /\ invoker = "resume_builder"
    /\ pc = "failed"
    /\ raised = FallbackInitError
    /\ fallback_llm = None
    /\ auth_error_encountered
    /\ calls = 3
    /\ attempt = 2

\* C7: in the llm_manager invoker an authentication error from the backend
\* ends the invocation in the Failed state.
C7_AuthErrorIsTerminal ==
    (invoker = "llm_manager" /\ "auth" \in primary_outcomes) => pc = "failed"

\* C8: in both invokers the backend calls of an invocation, primary and
\* fallback together, never exceed the ceiling; every iteration makes exactly
\* one call, the one that raised the authentication error included, and the
\* switch to the fallback does not start the count over.
C8_CallsWithinCeiling ==
    /\ calls <= Ceiling
    /\ pc = "attempting" => calls = attempt
    /\ pc = "done" => calls = attempt + 1
    /\ pc = "failed" /\ raised = ExhaustionError => calls = attempt /\ calls = Ceiling
    /\ pc = "failed" /\ raised = FallbackInitError => calls = attempt + 1

C8_Witness ==
    /\ invoker = "resume_builder"
    /\ pc = "done"
    /\ calls = 15
    /\ last_called = "fallback"
    /\ primary_outcomes = {"transient", "auth"}
    /\ fallback_outcomes = {"transient", "auth", "ok"}

\* C9: in the resume_builder invoker, once an authentication error has made
\* the fallback the backend in use, it stays so for the rest of the
\* invocation: every later call goes to the fallback, none to the primary.
C9_FallbackSwitchIsPermanent ==
    [][ /\ (pc' = "attempting" /\ auth_error_encountered') => fallback_llm' # None
        /\ ( /\ invoker = "resume_builder"
             /\ pc = "attempting"
             /\ auth_error_encountered
             /\ fallback_llm # None ) =>
               /\ pc' = "attempting" => auth_error_encountered' /\ fallback_llm' # None
               /\ calls' # calls =>
                      /\ last_called' = "fallback"
                      /\ primary_outcomes' = primary_outcomes ]_vars

C9_Witness ==
    /\ invoker = "resume_builder"
    /\ pc = "attempting"
    /\ last_called = "fallback"
    /\ fallback_outcomes = {"transient", "auth"}
    /\ primary_outcomes = {"auth"}
    /\ calls = 5

\* C10: on success the llm_manager invoker returns parse_llmresult(reply),
\* the canonical record.  Does not hold: the invoker returns the backend's
\* raw reply (return reply, line 398) and only logs the parsed one.
C10_ReturnsParsedReply ==
    (invoker = "llm_manager" /\ pc = "done") => ret = M_parse_llmresult(reply)

(***************************************************************************)
(* Properties of the normalizer (NormalizerSpec).                          *)
(***************************************************************************)
ParsedReplyKeys == {"content", "response_metadata", "id", "usage_metadata"}
ResponseMetadataKeys ==
    {"model_name", "system_fingerprint", "finish_reason", "logprobs"}
UsageMetadataKeys == {"input_tokens", "output_tokens", "total_tokens"}

\* C11: parse_llmresult of llm_manager.py is total: for every raw reply (an
\* object with any subset of the four attributes, with metadata present,
\* empty, null or of the wrong type, or a value that is no such object) it
\* returns, and what it returns is a record with content, id, the four
\* response_metadata keys and the three usage_metadata keys.
C11_NormalizerIsTotal ==
    /\ raised = "none"
    /\ pc = "idle" => ENABLED NormalizerNext
    /\ pc = "done" =>
          /\ DOMAIN ret = ParsedReplyKeys
          /\ DOMAIN ret.response_metadata = ResponseMetadataKeys
          /\ DOMAIN ret.usage_metadata = UsageMetadataKeys

C11_Witness ==
    /\ pc = "done"
    /\ reply.type = "object"
    /\ reply.attrs = {"content", "usage_metadata"}
    /\ reply.usage_metadata = WrongType(TRUE)
    /\ DOMAIN ret = ParsedReplyKeys
    /\ ret.usage_metadata.total_tokens = 0

\* the raw replies whose fields cannot be extracted: values without a content
\* attribute, and objects whose metadata is a non-empty value of the wrong type
ExtractionFails ==
    \/ "content" \notin reply.attrs
    \/ reply.response_metadata = WrongType(TRUE)
    \/ reply.usage_metadata = WrongType(TRUE)

\* C12: for a raw reply whose fields cannot be extracted (a bare string among
\* them) parse_llmresult of llm_manager.py returns content = str(raw reply),
\* id "error_parsing_response", model_name "phi3:latest", an empty
\* system_fingerprint, finish_reason "stop", null logprobs and token counts 0.
C12_UnparseableReplyGivesErrorRecord ==
    (pc = "done" /\ ExtractionFails) =>
        /\ reply.type = "str" => ret.content = reply.content
        /\ reply.type = "NoneType" => ret.content = "None"
        /\ reply.type = "object" => ret.content = "<object>"
        /\ ret.id = "error_parsing_response"
        /\ ret.response_metadata.model_name = "phi3:latest"
        /\ ret.response_metadata.system_fingerprint = ""
        /\ ret.response_metadata.finish_reason = "stop"
        /\ ret.response_metadata.logprobs = None
        /\ ret.usage_metadata.input_tokens = 0
        /\ ret.usage_metadata.output_tokens = 0
        /\ ret.usage_metadata.total_tokens = 0

C12_Witness ==
    /\ pc = "done"
    /\ reply.type = "str"
    /\ ret.content = "plain text"
    /\ ret.id = "error_parsing_response"
    /\ ret.response_metadata.model_name = "phi3:latest"

\* the value a metadata group of the returned record must have: the default
\* group when the attribute is missing or falsy, else key by key the source
\* value where the key is present and the default where it is not
TwoLevelDefault(attr, keys, defaults) ==
    IF attr \notin reply.attrs \/ reply[attr] \in {NoneDict, EmptyDict, WrongType(FALSE)}
    THEN defaults
    ELSE [k \in keys |->
            IF k \in DOMAIN reply[attr] THEN reply[attr][k] ELSE defaults[k]]

\* C13: parse_llmresult of llm_manager.py defaults at two levels: a missing or
\* empty response_metadata (usage_metadata) gives the whole default group, and
\* a group with some keys keeps each present key's value and gives each
\* missing key its default ("phi3:latest", "", "stop", null; 0 for the counts).
C13_DefaultsAtTwoLevels ==
    (pc = "done" /\ ~ExtractionFails) =>
        /\ ret.content = reply.content
        /\ ret.response_metadata =
               TwoLevelDefault("response_metadata", ResponseMetadataKeys,
                               [model_name |-> "phi3:latest", system_fingerprint |-> "",
                                finish_reason |-> "stop", logprobs |-> None])
        /\ ret.usage_metadata =
               TwoLevelDefault("usage_metadata", UsageMetadataKeys,
                               [input_tokens |-> 0, output_tokens |-> 0,
                                total_tokens |-> 0])

C13_Witness ==
    /\ pc = "done"
    /\ reply.response_metadata = [model_name |-> "gpt-4o-mini"]
    /\ reply.usage_metadata = [total_tokens |-> 15]
    /\ ret.response_metadata.model_name = "gpt-4o-mini"
    /\ ret.response_metadata.finish_reason = "stop"
    /\ ret.usage_metadata.total_tokens = 15
    /\ ret.usage_metadata.input_tokens = 0

\* C14: parse_llmresult of llm_manager.py puts a default id wherever the raw
\* reply's id is absent, null or empty, so the id it returns is never null.
C14_IdIsNeverNull ==
    pc = "done" =>
        /\ ret.id # None
        /\ ("id" \notin reply.attrs \/ reply.id \in {None, ""}) =>
               ret.id \in {"local_model_response", "error_parsing_response"}

(***************************************************************************)
(* Properties of the invokers' parsing and logging (Spec).                 *)
(***************************************************************************)
\* C15: in the resume_builder invoker a backend call that returns a reply of
\* unrecognized shape (response_metadata or usage_metadata missing or null) is
\* absorbed by the normalizer: the iteration returns, no retry is consumed and
\* nothing is slept.
C15_ParseErrorIsAbsorbed ==
    [][ U_AttemptParseRaises =>
            /\ pc' = "done"
            /\ attempt' = attempt
            /\ backoffs' = backoffs
            /\ last_sleep' = 0 ]_vars

\* the step is an iteration of the llm_manager loop that returns
M_Returns == invoker = "llm_manager" /\ pc = "attempting" /\ pc' = "done"

\* C16: in the llm_manager invoker the entries of the call log are the
\* invocations that returned a reply: the iteration that returns appends
\* exactly one entry, no other step appends or removes any, and an invocation
\* that ends in exhaustion leaves no entry of its own.
C16_OneEntryPerReturnedInvocation ==
    [][ invoker = "llm_manager" =>
            /\ M_Returns =>
                   /\ Len(log') = Len(log) + 1
                   /\ log'[Len(log')].time = invocations
            /\ ~M_Returns => log' = log
            /\ pc' = "failed" =>
                   \A i \in 1..Len(log') : log'[i].time # invocations' ]_vars

C16_Witness ==
    /\ invoker = "llm_manager"
    /\ invocations = 2
    /\ pc = "failed"
    /\ raised = ExhaustionError
    /\ Len(log) = 1
    /\ log[1].time = 1

\* C17: in the resume_builder invoker every invocation that returns a reply,
\* from the primary backend or from the fallback, has normalized that reply
\* and appended exactly one log entry for it before returning.
C17_EveryReturnIsLogged ==
    [][ (invoker = "resume_builder" /\ pc = "attempting" /\ pc' = "done") =>
            /\ Len(log') = Len(log) + 1
            /\ log'[Len(log')] =
                   LogEntry(messages, U_parse_llmresult(ret'), invocations) ]_vars

(***************************************************************************)
(* Properties of the call logger (LoggerSpec).                             *)
(***************************************************************************)
\* C18: the call log is append-only: a log_request call that fails leaves the
\* log as it was, one that succeeds extends it by exactly one entry at the
\* end, and the earlier log is a prefix of the later one.
C18_LogIsAppendOnly ==
    [][ invocations' = invocations + 1 =>
            /\ raised' # "none" => log' = log
            /\ raised' = "none" =>
                   /\ Len(log') = Len(log) + 1
                   /\ SubSeq(log', 1, Len(log)) = log
                   /\ log'[Len(log')].time = invocations' ]_vars

C18_Witness ==
    /\ invocations = 3
    /\ raised = "OSError"
    /\ Len(log) = 2
    /\ log[1].time = 1
    /\ log[2].time = 2
    /\ log[1].prompts.kind = "text"
    /\ log[2].prompts.kind = "dict"

\* C19: log_request never raises because of the shape of its prompts: a plain
\* string, a number or an object without a messages attribute is logged as
\* its string representation.
C19_UnexpectedPromptsAreLogged ==
    (pc # "idle" /\ messages.type \in {"str", "int", "object"}) =>
        /\ raised # "AttributeError"
        /\ raised = "none" =>
               /\ log # <<>>
               /\ log[Len(log)].prompts.kind = "text"

\* C20: for prompts that are a sequence of n role/content records and a
\* ParsedReply, log_request writes one entry whose prompts field maps
\* prompt_i to the content of the i-th record, in order, and whose
\* total_tokens is the ParsedReply's.
C20_RecordSequenceIsLogged ==
    (pc # "idle" /\ messages.type = "list" /\ raised # "OSError") =>
        /\ pc = "done"
        /\ log # <<>>
        /\ log[Len(log)].prompts =
               [kind |-> "dict", text |-> "", prompt_ |-> messages.messages]
        /\ log[Len(log)].total_tokens = reply.usage_metadata.total_tokens

(***************************************************************************)
(* Properties of failures after the backend call.                          *)
(***************************************************************************)
\* C21: in the llm_manager invoker, when log_request raises (the log file
\* cannot be opened or written) after the backend call succeeded, the failure
\* is surfaced to the caller as fatal: the invocation fails at once, nothing
\* is slept and the delay is not doubled.
C21_LogFailureIsFatal ==
    [][ M_AttemptLogRaises =>
            /\ pc' = "failed"
            /\ last_sleep' = 0
            /\ retry_delay' = retry_delay
            /\ backoffs' = backoffs ]_vars

\* C22: log_request writes total_cost = input_tokens * price_in +
\* output_tokens * price_out, and in llm_manager.py, the local-only
\* deployment, the prices are zero, so the total_cost it logs is 0 whatever
\* the token counts.
C22_LocalCostIsZero ==
    (invoker = "llm_manager" /\ pc = "done") =>
        /\ log # <<>>
        /\ log[Len(log)].total_cost =
               log[Len(log)].input_tokens * prompt_price_per_token
                   + log[Len(log)].output_tokens * completion_price_per_token
        /\ log[Len(log)].total_cost = 0

(***************************************************************************)
(* Properties of the prompt given to the backend.                          *)
(***************************************************************************)
\* C23: with the local flattened-text backend (DeepseekModel behind
\* AIAdapter), each attempt of the llm_manager invoker gives the backend one
\* text: the message contents, in order, joined by "\n\n".
C23_FlattenedWithBlankLine ==
    ( /\ invoker = "llm_manager"
      /\ calls > 0
      /\ messages.type \in {"list", "ChatPromptValue"} ) =>
        sent = TextPrompt(Join(messages.messages, "\n\n"))

\* C24: across the attempts of an invocation the caller's messages are never
\* modified or replaced, and what log_request is handed and logs is the
\* original structured messages - the text of a string prompt, one prompt_i
\* per message otherwise - not the text sent to the backend.
C24_MessagesAreNotModified ==
    [][ /\ pc = "attempting" => messages' = messages
        /\ log' # log =>
               /\ messages.type = "StringPromptValue" =>
                      /\ log'[Len(log')].prompts.kind = "text"
                      /\ log'[Len(log')].prompts.text = messages.text
               /\ messages.type # "StringPromptValue" =>
                      /\ log'[Len(log')].prompts.kind = "dict"
                      /\ log'[Len(log')].prompts.prompt_ = messages.messages ]_vars

C24_Witness ==
    /\ invoker = "resume_builder"
    /\ invocations = 2
    /\ pc = "done"
    /\ messages.type = "list"
    /\ messages.messages = <<"a", "b">>
    /\ last_called = "fallback"
    /\ sent = TextPrompt(<<"a", "\n\n", "b">>)
    /\ Len(log) = 1
    /\ log[1].prompts.prompt_ = <<"a", "b">>

(***************************************************************************)
(* Properties of the adapter (AdapterSpec).                                *)
(***************************************************************************)
\* C25: AIAdapter construction is independent of its inputs: whatever config
\* and api_key are, hosted backends included, the adapter holds the one local
\* backend, DeepseekModel on "phi3:latest", and _create_model returns a
\* backend of that same kind for every config.
C25_BackendIsIndependentOfConfig ==
    adapter.instance =>
        /\ adapter.model = [class |-> "DeepseekModel",
                            model |-> [class |-> "Ollama", model |-> "phi3:latest"]]
        /\ adapter.created \in {NoModel, adapter.model}
        /\ \A i \in 1..Len(adapter.built) :
               adapter.built[i] = [api_key |-> "", llm_model |-> "phi3:latest"]
        /\ (adapter.requested # NoArgs /\ raised = "none") =>
               adapter.created = adapter.model

C25_Witness ==
    /\ adapter.instance
    /\ adapter.args = Args([llm_model_type |-> "openai", llm_model |-> "gpt-4o-mini"],
                           "sk-1")
    /\ adapter.requested = Args([llm_model_type |-> "gemini", llm_model |-> "gemini-pro"],
                                "")
    /\ adapter.model.model.model = "phi3:latest"
    /\ adapter.created = adapter.model

\* C26: if building the local backend fails, the constructor of AIAdapter
\* raises ValueError at construction time after exactly one construction
\* attempt: no instance is produced, nothing is retried, and an instance never
\* exists without its model, so the failure is never left to the first invoke.
C26_ConstructionFailureIsImmediate ==
    /\ adapter.instance => adapter.model # NoModel
    /\ (pc # "idle" /\ ~adapter.instance) =>
           /\ pc = "failed"
           /\ raised = ConstructionError
           /\ adapter.model = NoModel
           /\ Len(adapter.built) = 1
           /\ ~ENABLED AdapterNext

C26_Witness ==
    /\ pc = "failed"
    /\ raised = ConstructionError
    /\ ~adapter.instance
    /\ adapter.args = Args([llm_model_type |-> "claude", llm_model |-> "claude-3-5-sonnet"],
                           "sk-1")
    /\ adapter.built = <<[api_key |-> "", llm_model |-> "phi3:latest"]>>

(***************************************************************************)
(* C27: the only errors that leave an invocation are the exhaustion error  *)
(* and a failure to construct the fallback backend; every error a backend  *)
(* raises during an attempt is absorbed by the invoker.  Does not hold:    *)
(* an HTTPError that carries no response makes the handler of utils.py     *)
(* line 133 raise AttributeError, which leaves __call__ on the spot.       *)
(***************************************************************************)
C27_OnlyExhaustionAndConstructionLeave ==
    /\ raised \in {"none", ExhaustionError, FallbackInitError}
    /\ pc = "failed" <=> raised # "none"

(***************************************************************************)
(* C28: invoker state is per call.  Every invocation starts with attempt   *)
(* index 0, the retry delay at its initial value and the primary backend   *)
(* active, and its first backend call goes to the primary, however the     *)
(* earlier invocations on the same instance ended: the three are locals of *)
(* __call__, and the fallback the instance keeps is not used before the    *)
(* invocation has met an authentication error of its own.                  *)
(***************************************************************************)
InitialRetryDelay ==
    IF invoker = "llm_manager" THEN DEFAULT_RETRY_DELAY ELSE initial_retry_delay

C28_EveryInvocationStartsFresh ==
    [][ /\ (M_Call \/ U_Call) =>
              /\ attempt' = 0
              /\ retry_delay' = InitialRetryDelay
              /\ calls' = 0
              /\ ~UsesFallback(auth_error_encountered', fallback_llm')
        /\ (AnyAttempt /\ calls = 0) =>
              /\ attempt = 0
              /\ retry_delay = InitialRetryDelay
              /\ last_called' = "primary" ]_vars

\* the first backend call of a second invocation, on an instance whose first
\* invocation switched to the fallback, has gone to the primary
C28_Witness ==
    /\ invoker = "resume_builder"
    /\ invocations = 2
    /\ fallback_llm # None
    /\ is_using_fallback
    /\ calls = 1
    /\ last_called = "primary"

(***************************************************************************)
(* C29: every invocation terminates.  Provided each backend call and each  *)
(* sleep returns, an invocation of either invoker eventually reaches done  *)
(* (reply returned) or failed (error raised), after at most max_retries    *)
(* iterations of its loop.                                                 *)
(***************************************************************************)
\* one iteration of the for loop, or the statement after it
LoopStep == AnyAttempt \/ M_Exhausted \/ U_Exhausted

\* the invokers, called MaxLiveInvocations times at most
LiveNext == Next /\ invocations' <= MaxLiveInvocations

\* an invocation under way goes on: the backend call and the sleep of the
\* iteration it is in return
LiveSpec == Init /\ [][LiveNext]_vars /\ WF_vars(LoopStep)

C29_EveryInvocationTerminates ==
    /\ (pc = "attempting") ~> (pc \in {"done", "failed"})
    /\ [](attempt <= Ceiling /\ calls <= Ceiling)

\* an invocation has ended after more than one iteration of its loop
C29_Witness ==
    /\ pc \in {"done", "failed"}
    /\ calls > 1
    /\ attempt > 0

(***************************************************************************)
(* C30: two invocations running concurrently on one invoker instance share *)
(* no mutable state other than the log file: no interleaving lets one read *)
(* or overwrite a variable the other wrote, the fallback backend instance  *)
(* and the fallback-active flag in particular.  Does not hold:             *)
(* self.fallback_llm and self.is_using_fallback are attributes of the      *)
(* instance, so a thread calls the fallback another thread built, and a    *)
(* thread that entered _initialize_fallback replaces the one built since.  *)
(***************************************************************************)
C30_ThreadsShareOnlyTheLog ==
    [][ \A t \in Threads :
          \* t calls no backend object another thread assigned
          /\ callee'[t] \in {NoCallee, "primary", OllamaBuiltBy(t)}
          /\ last_called'[t] \in {"none", "primary", OllamaBuiltBy(t)}
          \* t replaces no fallback or flag another thread assigned
          /\ fallback_llm' = OllamaBuiltBy(t) =>
                 fallback_llm \in {None, OllamaBuiltBy(t)}
          /\ (pc[t] = "initialized" /\ pc'[t] = "attempting") =>
                 ~is_using_fallback ]_vars

(***************************************************************************)
(* C31: call_ollama_api retries failed requests.  When every request       *)
(* raises a RequestException it makes exactly config.MAX_RETRIES requests, *)
(* sleeping config.RETRY_DELAY seconds between consecutive requests, and   *)
(* then re-raises the last RequestException; when request j is the first   *)
(* to succeed it returns that response's 'response' field after exactly j  *)
(* requests.  Does not hold: api_handler.py never imports time, so the     *)
(* sleep after the first failed request raises NameError, which leaves     *)
(* call_ollama_api after one request.                                      *)
(***************************************************************************)
\* every request of the invocation so far raised a RequestException
OnlyRequestExceptions ==
    /\ primary_outcomes # {}
    /\ \A class \in primary_outcomes : IsRequestException(class)

C31_RetriesFailedRequests ==
    /\ (pc = "failed" /\ OnlyRequestExceptions) =>
          /\ calls = config_MAX_RETRIES
          /\ backoffs = config_MAX_RETRIES - 1
          /\ IsRequestException(raised)
    /\ pc = "done" =>
          /\ calls = attempt + 1
          /\ backoffs = attempt
          /\ ret = "text"

(***************************************************************************)
(* C36: in call_ollama_api only RequestException failures reach the        *)
(* handler.  Any other error raised during an attempt, such as the         *)
(* KeyError of a body without a 'response' key or the TypeError of a body  *)
(* that is a list, leaves call_ollama_api as it is, from the iteration     *)
(* that raised it: no sleep, and no request after that one.                *)
(***************************************************************************)
C36_OtherErrorsPropagateAtOnce ==
    \A class \in {"KeyError", "TypeError"} :
        class \in primary_outcomes =>
            /\ pc = "failed"
            /\ raised = class
            /\ primary_outcomes = {class}
            /\ last_sleep = 0
            /\ backoffs = 0
            /\ calls = attempt + 1
            /\ Len(log) >= calls
            /\ log[Len(log)] = ApiRequest(messages)

\* a body without a 'response' key has ended the second invocation
C36_Witness ==
    /\ invoker = "api_handler"
    /\ invocations = 2
    /\ pc = "failed"
    /\ raised = "KeyError"
    /\ calls = 1
    /\ Len(log) = 2

(***************************************************************************)
(* C32: in the llm_manager invoker a backoff sleep follows every failed    *)
(* attempt, the last included.  An invocation that ends in exhaustion has  *)
(* slept exactly MAX_RETRIES times, DEFAULT_RETRY_DELAY * (2^MAX_RETRIES   *)
(* - 1) seconds in all, and its last sleep comes after the last backend    *)
(* call and before the error is raised.                                    *)
(***************************************************************************)
RECURSIVE SleptAfter(_)
\* the seconds slept in n backoffs, the k-th of which lasts
\* DEFAULT_RETRY_DELAY * 2^(k-1)
SleptAfter(n) ==
    IF n = 0 THEN 0 ELSE SleptAfter(n - 1) + DEFAULT_RETRY_DELAY * Pow2(n - 1)

C32_SleepsAfterEveryFailedAttempt ==
    (invoker = "llm_manager" /\ pc \in {"attempting", "failed"}) =>
        \* one sleep for each backend call made so far, each of the delay
        \* current when it started
        /\ backoffs = calls
        /\ backoffs > 0 => last_sleep = SleptAfter(backoffs) - SleptAfter(backoffs - 1)
        /\ retry_delay = DEFAULT_RETRY_DELAY + SleptAfter(backoffs)
        \* the loop is left only after the sleep of its last iteration
        /\ (pc = "failed" \/ ~InRange(attempt, MAX_RETRIES)) =>
              /\ calls = MAX_RETRIES
              /\ backoffs = MAX_RETRIES
              /\ SleptAfter(backoffs) = DEFAULT_RETRY_DELAY * (Pow2(MAX_RETRIES) - 1)

\* exhaustion, after a fifteenth sleep of 30 * 2^14 seconds
C32_Witness ==
    /\ invoker = "llm_manager"
    /\ pc = "failed"
    /\ raised = ExhaustionError
    /\ backoffs = MAX_RETRIES
    /\ last_sleep = DEFAULT_RETRY_DELAY * Pow2(MAX_RETRIES - 1)

(***************************************************************************)
(* C33: in the resume_builder invoker the handling of an authentication    *)
(* error does not sleep and leaves the retry delay as it is: the next      *)
(* attempt, against the fallback, starts at once, and a later transient    *)
(* failure sleeps the delay that was current before the authentication     *)
(* error, initial_retry_delay doubled once for each earlier backoff.       *)
(***************************************************************************)
C33_AuthErrorDoesNotBackOff ==
    [][ /\ U_AttemptRaisesAuth =>
              /\ last_sleep' = 0
              /\ retry_delay' = retry_delay
              /\ backoffs' = backoffs
              /\ pc' = "attempting" =>
                    /\ attempt' = attempt + 1
                    /\ UsesFallback(auth_error_encountered', fallback_llm')
        /\ U_AttemptRaisesBackoff =>
              /\ last_sleep' = retry_delay
              /\ last_sleep' = initial_retry_delay * Pow2(backoffs) ]_vars

\* the first backoff of an invocation, after an authentication error and a
\* rate-limit wait: it sleeps the initial delay
C33_Witness ==
    /\ invoker = "resume_builder"
    /\ pc = "attempting"
    /\ primary_outcomes = {"auth"}
    /\ fallback_outcomes = {"transient"}
    /\ attempt = 3
    /\ backoffs = 1
    /\ last_sleep = initial_retry_delay
    /\ retry_delay = 2 * initial_retry_delay

(***************************************************************************)
(* C34: in the resume_builder invoker, after a first authentication error  *)
(* on an attempt before the last, with the fallback built, the next        *)
(* attempt calls the fallback; after a first authentication error on the   *)
(* last attempt the fallback is built and never called, and the invocation *)
(* ends with the exhaustion error whatever the fallback would have         *)
(* answered.                                                               *)
(***************************************************************************)
\* the invocation has met an authentication error, holds a fallback, and has
\* not called it yet
SwitchedNotYetCalled ==
    /\ invoker = "resume_builder"
    /\ auth_error_encountered
    /\ fallback_llm # None
    /\ fallback_outcomes = {}

C34_SwitchOnLastAttemptIsWasted ==
    /\ (SwitchedNotYetCalled /\ pc = "attempting" /\ attempt < max_retries) =>
          /\ ENABLED U_FallbackReturns
          /\ ~ENABLED U_AttemptReturns
          /\ ~ENABLED U_Exhausted
    /\ (SwitchedNotYetCalled /\ pc = "attempting" /\ attempt >= max_retries) =>
          /\ attempt = max_retries
          /\ calls = max_retries
          /\ last_called = "primary"
          /\ ~ENABLED U_FallbackReturns
          /\ ENABLED U_Exhausted
    /\ (SwitchedNotYetCalled /\ pc = "failed") =>
          /\ raised = ExhaustionError
          /\ calls = max_retries
          /\ last_called = "primary"
    /\ (SwitchedNotYetCalled /\ pc = "done") => FALSE

\* exhaustion in the invocation that built the fallback on its last attempt
C34_Witness ==
    /\ invoker = "resume_builder"
    /\ invocations = 1
    /\ pc = "failed"
    /\ raised = ExhaustionError
    /\ auth_error_encountered
    /\ fallback_llm # None
    /\ is_using_fallback
    /\ fallback_outcomes = {}
    /\ calls = max_retries

(***************************************************************************)
(* C35: over any sequence of invocations on one resume_builder invoker the *)
(* fallback backend is constructed at most once.  The object the first     *)
(* successful construction assigned is the one every later switch uses,    *)
(* and _initialize_fallback runs again only while every earlier run has    *)
(* failed, so an invocation on an instance that holds a fallback never     *)
(* ends with the error of a failed construction.                           *)
(***************************************************************************)
C35_FallbackIsBuiltAtMostOnce ==
    invoker = "resume_builder" =>
        /\ fallback_llm \in {None, NewOllama(None)}
        /\ is_using_fallback <=> fallback_llm # None
        /\ (pc = "failed" /\ raised = FallbackInitError) => fallback_llm = None
        /\ (auth_error_encountered /\ pc = "attempting") => fallback_llm # None
        /\ last_called = "fallback" => fallback_llm = NewOllama(None)

\* a second invocation has switched to the fallback the first one built
C35_Witness ==
    /\ invoker = "resume_builder"
    /\ invocations = 2
    /\ fallback_llm = NewOllama(None)
    /\ primary_outcomes = {"auth"}
    /\ fallback_outcomes = {"ok"}
    /\ pc = "done"
    /\ Len(log) = 0

====
